---- MODULE Spec2Model ----
(***************************************************************************)
(* Model of the multiprot wrappers Ranch (new_ranch_6.py) and Pulchra      *)
(* (pulchra.py).                                                           *)
(*                                                                         *)
(* A PDBModel is a sequence of atoms.  Every atom carries the residue      *)
(* letter of its residue (aa), its coordinate (xyz), the index of its      *)
(* residue and of its chain inside the model (res, chain: the residue and  *)
(* chain maps PDBModel keeps), and the atom profiles chain_id,             *)
(* serial_number and residue_number.  Indices are 0-based as in the        *)
(* source; positions in TLA+ sequences are 1-based.                        *)
(***************************************************************************)
EXTENDS Integers, Sequences, FiniteSets, TLC

VARIABLES
  lib,     \* what the PDBModel library does with an empty index list
  call,    \* the class-method call under way: its arguments and outcome
  self,    \* the current Ranch / Pulchra object
  fs,      \* the file system: path -> content, for the paths that exist
  ntmp,    \* number of temporary names mkdtemp has handed out
  past     \* the objects that were dropped: their directories and flags

vars == <<lib, call, self, fs, ntmp, past>>

(***************************************************************************)
(* Bounds of the model                                                     *)
(***************************************************************************)
MaxChains == 2      \* chains of an input model of the class methods
MaxChainLen == 2    \* residues of one chain of such a model
MaxEmb == 2         \* entries of an embedded dictionary given to a call
MaxModels == 2      \* files the external tool leaves in the models folder
MaxObjects == 2     \* objects constructed in one behaviour

AA == {"A", "G"}

(***************************************************************************)
(* Outcomes: a value, or the exception that was raised                     *)
(***************************************************************************)
Ok(v) == [exc |-> "none", val |-> v]
Raise(e) == [exc |-> e, val |-> <<>>]
IsOk(r) == r.exc = "none"

\* the value of r goes on to F; an exception of r goes on to the caller
Bind(r, F(_)) == IF IsOk(r) THEN F(r.val) ELSE Raise(r.exc)

(***************************************************************************)
(* Python helpers                                                          *)
(***************************************************************************)
\* list(range(a, b))
Range0(a, b) == [k \in 1..(IF b > a THEN b - a ELSE 0) |-> a + k - 1]

\* s[a:b] for 0 <= a
Slice(s, a, b) ==
  LET hi == IF b < Len(s) THEN b ELSE Len(s)
  IN IF a >= hi THEN <<>> ELSE SubSeq(s, a + 1, hi)

Elems(s) == {s[k] : k \in 1..Len(s)}

\* list.remove(x) for an x that is in the list
ListRemove(s, x) ==
  LET p == CHOOSE k \in 1..Len(s) : s[k] = x /\ \A j \in 1..(k - 1) : s[j] # x
  IN SubSeq(s, 1, p - 1) \o SubSeq(s, p + 1, Len(s))

MatchAt(pat, s, pos) ==
  /\ pos + Len(pat) <= Len(s)
  /\ \A k \in 1..Len(pat) : s[pos + k] = pat[k]

\* [m.start() for m in re.finditer(pat, s)] for a literal pattern, from pos on
RECURSIVE finditerFrom(_, _, _)
finditerFrom(pat, s, pos) ==
  IF pos + Len(pat) > Len(s) THEN <<>>
  ELSE IF MatchAt(pat, s, pos)
       THEN <<pos>> \o finditerFrom(pat, s, IF Len(pat) = 0 THEN pos + 1
                                             ELSE pos + Len(pat))
       ELSE finditerFrom(pat, s, pos + 1)

finditer(pat, s) == finditerFrom(pat, s, 0)

\* re.search(pat, s) is not None
search(pat, s) == \E p \in 0..Len(s) : MatchAt(pat, s, p)

(***************************************************************************)
(* PDBModel                                                                *)
(***************************************************************************)
Letters == <<"A", "B", "C", "D", "E", "F", "G", "H", "I", "J", "K", "L">>

EmptyModel == <<>>

lenResidues(m) == IF m = <<>> THEN 0 ELSE m[Len(m)].res + 1
lenChains(m) == IF m = <<>> THEN 0 ELSE m[Len(m)].chain + 1

\* position of each residue's first atom
resIndex(m) ==
  [r \in 1..lenResidues(m) |->
     (CHOOSE k \in 1..Len(m) :
        m[k].res = r - 1 /\ \A j \in 1..(k - 1) : m[j].res # r - 1) - 1]

\* one letter per residue
sequence(m) == [r \in 1..lenResidues(m) |-> m[resIndex(m)[r] + 1].aa]

\* The residue and chain maps of a selection of atoms: a new residue (chain)
\* starts where the residue (chain) of the source changes.
Reindex(atoms) ==
  LET n == Len(atoms)
      resOf[k \in 1..n] ==
        IF k = 1 THEN 0
        ELSE IF atoms[k].res # atoms[k - 1].res THEN resOf[k - 1] + 1
             ELSE resOf[k - 1]
      chOf[k \in 1..n] ==
        IF k = 1 THEN 0
        ELSE IF atoms[k].chain # atoms[k - 1].chain THEN chOf[k - 1] + 1
             ELSE chOf[k - 1]
  IN [k \in 1..n |-> [atoms[k] EXCEPT !.res = resOf[k], !.chain = chOf[k]]]

\* m.take(i): the atoms at the positions i, in that order
take(m, i) == Reindex([k \in 1..Len(i) |-> m[i[k] + 1]])

Positions(m, P(_)) ==
  SelectSeq([k \in 1..Len(m) |-> k - 1], LAMBDA p : P(m[p + 1]))

RECURSIVE extendIndex(_, _, _)
extendIndex(m, indices, byChain) ==
  IF indices = <<>> THEN <<>>
  ELSE (IF byChain
        THEN Positions(m, LAMBDA a : a.chain = Head(indices))
        ELSE Positions(m, LAMBDA a : a.res = Head(indices)))
       \o extendIndex(m, Tail(indices), byChain)

\* m.res2atomIndices(indices); an index list that is empty or out of range
\* has no atom positions (the callers below decide what is raised)
res2atomIndices(m, indices) == extendIndex(m, indices, FALSE)
chain2atomIndices(m, indices) == extendIndex(m, indices, TRUE)

\* m.atom2chainIndices(i): the chains the atoms i belong to, ascending
atom2chainIndices(m, i) ==
  SelectSeq(Range0(0, lenChains(m)),
            LAMBDA c : \E k \in 1..Len(i) : m[i[k] + 1].chain = c)

\* What an index list makes of a residue / chain selection: max() of an
\* empty list raises in one build of the library and selects nothing in
\* another; an index past the end raises.
IndexOutcome(indices, n, emptyRaises) ==
  IF indices = <<>> THEN (IF emptyRaises THEN "ValueError" ELSE "none")
  ELSE IF \E k \in 1..Len(indices) : indices[k] >= n \/ indices[k] < 0
       THEN "PDBError" ELSE "none"

takeResiduesLib(m, indices, emptyRaises) ==
  LET o == IndexOutcome(indices, lenResidues(m), emptyRaises)
  IN IF o # "none" THEN Raise(o) ELSE Ok(take(m, res2atomIndices(m, indices)))

takeChainsLib(m, indices, emptyRaises) ==
  LET o == IndexOutcome(indices, lenChains(m), emptyRaises)
  IN IF o # "none" THEN Raise(o) ELSE Ok(take(m, chain2atomIndices(m, indices)))

takeResidues(m, indices) == takeResiduesLib(m, indices, lib)
takeChains(m, indices) == takeChainsLib(m, indices, lib)

\* a.concat(b): b's first atom starts a new residue and a new chain
concat(a, b) ==
  a \o [k \in 1..Len(b) |->
          [b[k] EXCEPT !.res = b[k].res + lenResidues(a),
                       !.chain = b[k].chain + lenChains(a)]]

\* m.remove(i): in place, the atoms at the positions i are dropped
remove(m, i) ==
  take(m, SelectSeq(Range0(0, Len(m)), LAMBDA p : p \notin Elems(i)))

\* m.mergeChains(c): the boundary between chain c and chain c+1 goes; the
\* second chain takes the first one's chain_id and its residue numbering is
\* shifted to follow the first chain's
mergeChains(m, c) ==
  LET lastC == CHOOSE k \in 1..Len(m) :
                 m[k].chain = c /\ \A j \in (k + 1)..Len(m) : m[j].chain # c
      firstN == lastC + 1
      delta == m[lastC].residue_number + 1 - m[firstN].residue_number
  IN [k \in 1..Len(m) |->
        IF m[k].chain = c + 1
        THEN [m[k] EXCEPT !.chain = c, !.chain_id = m[lastC].chain_id,
                          !.residue_number = m[k].residue_number + delta]
        ELSE IF m[k].chain > c + 1 THEN [m[k] EXCEPT !.chain = m[k].chain - 1]
        ELSE m[k]]

renumberResidues(m) ==
  [k \in 1..Len(m) |-> [m[k] EXCEPT !.residue_number = m[k].res + 1]]

addChainId(m) ==
  [k \in 1..Len(m) |-> [m[k] EXCEPT !.chain_id = Letters[m[k].chain + 1]]]

\* m['serial_number'] = arange(1, len(m)+1)
setSerial(m) == [k \in 1..Len(m) |-> [m[k] EXCEPT !.serial_number = k]]

\* N.all(a == b) for the coordinates of two residues: elementwise, a single
\* atom is broadcast over the other residue's atoms, other shapes differ
xyzAllEqual(a, b) ==
  IF Len(a) = Len(b) THEN \A k \in 1..Len(a) : a[k] = b[k]
  ELSE IF Len(a) = 1 THEN \A k \in 1..Len(b) : b[k] = a[1]
  ELSE IF Len(b) = 1 THEN \A k \in 1..Len(a) : a[k] = b[1]
  ELSE FALSE

(***************************************************************************)
(* Ranch class methods                                                     *)
(***************************************************************************)
\* The models a call holds, by the name the code gives them.
\* name = src.take(src.res2atomIndices(indices)): take builds a new model,
\* the receiver keeps its atoms
takeAs(objs, name, src, indices) ==
  Bind(takeResidues(objs[src], indices), LAMBDA v : Ok((name :> v) @@ objs))

\* name = a.concat(b, c): concat builds a new model, a, b and c keep their
\* atoms
concatAs(objs, name, a, b, c) ==
  (name :> concat(concat(objs[a], objs[b]), objs[c])) @@ objs

\* what a call that ended with `return result` gives: the result, and dom and
\* to_embed as the call leaves them
returned(r) ==
  IF IsOk(r)
  THEN Ok(r.val.result) @@ [dom |-> r.val.dom, to_embed |-> r.val.to_embed]
  ELSE r

\* embed with the split of dom after its first residue instead of its second
embedSplitAtOne(dom, to_embed) ==
  returned(
    Bind(takeAs([dom |-> dom, to_embed |-> to_embed], "first", "dom", <<0>>),
         LAMBDA o1 :
           Bind(takeAs(o1, "last", "dom", Range0(1, lenResidues(o1.dom))),
                LAMBDA o2 :
                  Ok(concatAs(o2, "result", "first", "to_embed", "last")))))

\* Ranch.embed(dom, to_embed)
embed(dom, to_embed) ==
  returned(
    Bind(takeAs([dom |-> dom, to_embed |-> to_embed], "first", "dom", <<0, 1>>),
         LAMBDA o1 :
           Bind(takeAs(o1, "last", "dom", Range0(2, lenResidues(o1.dom))),
                LAMBDA o2 :
                  Ok(concatAs(o2, "result", "first", "to_embed", "last")))))

StartLen == 10

\* The index of the first match of start in full's sequence whose residue
\* has the coordinates of m's first residue, or -1 (the inner for loop).
RECURSIVE firstXyzMatch(_, _, _)
firstXyzMatch(m, full, matches) ==
  IF matches = <<>> THEN -1
  ELSE LET index == Head(matches)
           first_res_m == res2atomIndices(m, <<0>>)
           first_res_full == res2atomIndices(full, <<index>>)
           xm == [k \in 1..Len(first_res_m) |-> m[first_res_m[k] + 1].xyz]
           xf == [k \in 1..Len(first_res_full) |-> full[first_res_full[k] + 1].xyz]
       IN IF xyzAllEqual(xm, xf) THEN index
          ELSE firstXyzMatch(m, full, Tail(matches))

\* The loop over the chains of dom: chains_to_take after chain ci and on.
RECURSIVE fixedLoop(_, _, _, _)
fixedLoop(dom, full, ci, chains_to_take) ==
  IF ci >= lenChains(dom) THEN Ok(chains_to_take)
  ELSE LET m == take(dom, chain2atomIndices(dom, <<ci>>))
           start == Slice(sequence(m), 0, StartLen)
           index == IF search(start, sequence(full))
                    THEN firstXyzMatch(m, full, finditer(start, sequence(full)))
                    ELSE -1
       IN IF index < 0 THEN fixedLoop(dom, full, ci + 1, chains_to_take)
          ELSE LET chain_ind ==
                     atom2chainIndices(full, res2atomIndices(full, <<index>>))
               IN IF chain_ind[1] \notin Elems(chains_to_take)
                  THEN Raise("ValueError")
                  ELSE fixedLoop(dom, full, ci + 1,
                                 ListRemove(chains_to_take, chain_ind[1]))

\* Ranch.extract_fixed(dom, full)
extract_fixed(dom, full) ==
  LET c == fixedLoop(dom, full, 0, Range0(0, lenChains(full)))
  IN IF ~IsOk(c) THEN c ELSE takeChains(full, c.val)

\* sorted(emb_ind, key=itemgetter(0), reverse=True): stable
RECURSIVE sortedReverse(_)
sortedReverse(s) ==
  IF s = <<>> THEN <<>>
  ELSE LET p == CHOOSE k \in 1..Len(s) :
                  /\ \A j \in 1..Len(s) : s[j][1] <= s[k][1]
                  /\ \A j \in 1..(k - 1) : s[j][1] < s[k][1]
       IN <<s[p]>> \o sortedReverse(SubSeq(s, 1, p - 1) \o SubSeq(s, p + 1, Len(s)))

\* The first loop of extract_embedded: r and emb_ind after entry k and on.
RECURSIVE collectEmbedded(_, _, _, _, _)
collectEmbedded(full, embedded, k, r, emb_ind) ==
  IF k > Len(embedded) THEN Ok([r |-> r, emb_ind |-> emb_ind])
  ELSE LET dom == embedded[k].dom
           i_start == embedded[k].i_start
           i_end == i_start + Len(sequence(dom))
       IN IF Slice(sequence(full), i_start, i_end) = sequence(dom)
          THEN LET t == takeResidues(full, Range0(i_start, i_end))
               IN IF ~IsOk(t) THEN Raise(t.exc)
                  ELSE collectEmbedded(full, embedded, k + 1, concat(r, t.val),
                                       Append(emb_ind, <<i_start, i_end>>))
          ELSE Raise("TypeError")

\* The second loop: the atoms of each block leave full, highest block first.
RECURSIVE removeEmbedded(_, _)
removeEmbedded(full, emb_ind) ==
  IF emb_ind = <<>> THEN Ok(full)
  ELSE LET i_start == Head(emb_ind)[1]
           i_end == Head(emb_ind)[2]
           ri == resIndex(full)
       IN IF i_start >= Len(ri) \/ i_end >= Len(ri) THEN Raise("IndexError")
          ELSE removeEmbedded(
                 remove(full, Range0(ri[i_start + 1], ri[i_end + 1])),
                 Tail(emb_ind))

\* for i in range(full.lenChains()-1): full.mergeChains(0)
RECURSIVE mergeAll(_, _)
mergeAll(full, n) == IF n <= 0 THEN full ELSE mergeAll(mergeChains(full, 0), n - 1)

\* Ranch.extract_embedded(full, embedded); embedded is the dictionary as the
\* sequence of its items (dom, i_start) in insertion order
extract_embedded(full, embedded) ==
  Bind(collectEmbedded(full, embedded, 1, EmptyModel, <<>>),
    LAMBDA c :
  Bind(removeEmbedded(full, sortedReverse(c.emb_ind)),
    LAMBDA rest :
  Ok(setSerial(addChainId(
       concat(renumberResidues(mergeAll(rest, lenChains(rest) - 1)), c.r))))))

\* The loop of extract_symmetric over the matches: the extracted units.
RECURSIVE symUnits(_, _, _, _)
symUnits(full, symlen, embedded, starts) ==
  IF starts = <<>> THEN Ok(<<>>)
  ELSE Bind(takeResidues(full, Range0(Head(starts), Head(starts) + symlen)),
         LAMBDA symunit :
       Bind(extract_embedded(symunit, embedded),
         LAMBDA e :
       Bind(symUnits(full, symlen, embedded, Tail(starts)),
         LAMBDA rest : Ok(<<e>> \o rest))))

RECURSIVE concatAll(_)
concatAll(ms) ==
  IF Len(ms) = 1 THEN ms[1]
  ELSE concat(concatAll(SubSeq(ms, 1, Len(ms) - 1)), ms[Len(ms)])

\* extract_symmetric that stops after the first occurrence of symseq
extractSymmetricFirstOnly(full, symseq, embedded) ==
  IF search(symseq, sequence(full))
  THEN Bind(symUnits(full, Len(symseq), embedded,
                     <<Head(finditer(symseq, sequence(full)))>>),
            LAMBDA u : Ok(setSerial(addChainId(concatAll(u)))))
  ELSE Raise("TypeError")

\* Ranch.extract_symmetric(full, symseq, embedded)
extract_symmetric(full, symseq, embedded) ==
  IF search(symseq, sequence(full))
  THEN Bind(symUnits(full, Len(symseq), embedded, finditer(symseq, sequence(full))),
            LAMBDA u : Ok(setSerial(addChainId(concatAll(u)))))
  ELSE Raise("TypeError")

(***************************************************************************)
(* The models the calls are given                                          *)
(***************************************************************************)
\* a glycine has one atom here, any other residue two
NAtoms(aa) == IF aa = "G" THEN 1 ELSE 2

Atom(aa, x) ==
  [aa |-> aa, xyz |-> x, res |-> 0, chain |-> 0, chain_id |-> "A",
   serial_number |-> 0, residue_number |-> 0]

\* one chain with the residues seq; its atoms have the coordinates x0+1, ...
RECURSIVE MkChain(_, _)
MkChain(seq, x0) ==
  IF seq = <<>> THEN <<>>
  ELSE LET init == MkChain(SubSeq(seq, 1, Len(seq) - 1), x0)
           aa == seq[Len(seq)]
       IN init \o [k \in 1..NAtoms(aa) |->
                     [Atom(aa, x0 + Len(init) + k) EXCEPT !.res = Len(seq) - 1]]

RECURSIVE MkChains(_, _)
MkChains(chains, x0) ==
  IF chains = <<>> THEN <<>>
  ELSE LET init == MkChains(SubSeq(chains, 1, Len(chains) - 1), x0)
       IN concat(init, MkChain(chains[Len(chains)], x0 + Len(init)))

\* a model as read from a file: chains A, B, ..., residues and atoms numbered
MkModel(chains, x0) == setSerial(addChainId(renumberResidues(MkChains(chains, x0))))

SeqsUpTo(n) == UNION {[1..k -> AA] : k \in 1..n}
ChainLists(nc, len) == UNION {[1..k -> SeqsUpTo(len)] : k \in 1..nc}

(***************************************************************************)
(* Calls of the class methods on bounded inputs                            *)
(***************************************************************************)
Idle == [op |-> "idle"]
NoObject == [cls |-> "none", pc |-> "none"]

FnInit(libs) ==
  /\ lib \in libs
  /\ call = Idle
  /\ self = NoObject
  /\ fs = <<>>
  /\ ntmp = 0
  /\ past = {}

Return ==
  /\ call.op # "idle"
  /\ call' = Idle
  /\ UNCHANGED <<lib, self, fs, ntmp, past>>

\* ascending index lists over 0..n-1, not empty
IndexLists(n) ==
  {SelectSeq(Range0(0, n), LAMBDA c : c \in S) : S \in (SUBSET (0..(n - 1))) \ {{}}}

\* dictionaries {dom: i_start} of up to n single-chain domains
EmbeddedDicts(n, len, maxStart) ==
  UNION {[1..k -> {[dom |-> MkModel(<<q>>, 100), i_start |-> i] :
                     q \in SeqsUpTo(len), i \in 0..maxStart}] : k \in 0..n}

CallEmbed ==
  /\ call.op = "idle"
  /\ \E d \in SeqsUpTo(MaxChainLen + 1), t \in ChainLists(MaxChains, MaxChainLen) :
       LET dom == MkModel(<<d>>, 0)
           to_embed == MkModel(t, 100)
       IN call' = [op |-> "embed", dom |-> dom, to_embed |-> to_embed,
                   out |-> embed(dom, to_embed)]
  /\ UNCHANGED <<lib, self, fs, ntmp, past>>

CallExtractFixed ==
  /\ call.op = "idle"
  /\ \E f \in ChainLists(MaxChains + 1, MaxChainLen) :
       LET full == MkModel(f, 0)
       IN \E dom \in {take(full, chain2atomIndices(full, sel)) :
                        sel \in IndexLists(Len(f))}
                     \cup {MkModel(<<f[1]>>, 100)} :
            call' = [op |-> "extract_fixed", dom |-> dom, full |-> full,
                     out |-> extract_fixed(dom, full)]
  /\ UNCHANGED <<lib, self, fs, ntmp, past>>

CallExtractEmbedded ==
  /\ call.op = "idle"
  /\ \E f \in ChainLists(MaxChains, MaxChainLen),
        embedded \in EmbeddedDicts(MaxEmb, MaxChainLen, MaxChainLen + 1) :
       LET full == MkModel(f, 0)
       IN call' = [op |-> "extract_embedded", full |-> full,
                   embedded |-> embedded,
                   out |-> extract_embedded(full, embedded)]
  /\ UNCHANGED <<lib, self, fs, ntmp, past>>

CallExtractSymmetric ==
  /\ call.op = "idle"
  /\ \E f \in ChainLists(2, MaxChainLen + 1),
        symseq \in SeqsUpTo(MaxChainLen + 1),
        embedded \in EmbeddedDicts(1, 1, MaxChainLen) :
       LET full == MkModel(f, 0)
       IN call' = [op |-> "extract_symmetric", full |-> full,
                   symseq |-> symseq, embedded |-> embedded,
                   out |-> extract_symmetric(full, symseq, embedded)]
  /\ UNCHANGED <<lib, self, fs, ntmp, past>>

NextEmbed == CallEmbed \/ Return
NextFixed == CallExtractFixed \/ Return
NextEmbedded == CallExtractEmbedded \/ Return
NextSymmetric == CallExtractSymmetric \/ Return

\* extract_embedded and extract_symmetric never select with an empty index
\* list (a domain and symseq have residues), so the two builds of the library
\* agree on them
SpecEmbed == FnInit(BOOLEAN) /\ [][NextEmbed]_vars
SpecFixed == FnInit(BOOLEAN) /\ [][NextFixed]_vars
SpecEmbedded == FnInit({TRUE}) /\ [][NextEmbedded]_vars
SpecSymmetric == FnInit({TRUE}) /\ [][NextSymmetric]_vars

(***************************************************************************)
(* Properties of the class methods                                         *)
(***************************************************************************)
\* what identifies the atoms of a model: residue letter and coordinate
Key(m) == [k \in 1..Len(m) |-> <<m[k].aa, m[k].xyz>>]

\* what C5 says of a call of embed that returned: the atoms of dom's
\* residues 0 and 1, then all atoms of to_embed, then the atoms of dom's
\* residues 2 and up; the residue sequence dom[:2] + to_embed + dom[2:]; and
\* dom and to_embed as they were
EmbedAsStated(dom, to_embed, out) ==
  /\ Key(out.val) = Key(SelectSeq(dom, LAMBDA a : a.res < 2))
                      \o Key(to_embed)
                      \o Key(SelectSeq(dom, LAMBDA a : a.res >= 2))
  /\ sequence(out.val) =
       Slice(sequence(dom), 0, 2) \o sequence(to_embed)
         \o Slice(sequence(dom), 2, lenResidues(dom))
  /\ out.dom = dom
  /\ out.to_embed = to_embed

\* C5 as stated: embed(dom, to_embed), for a dom that has its first two
\* residues, returns the model made of dom's first two residues, to_embed
\* and the rest of dom, and modifies neither input.
C5_EmbedReturnsModel ==
  (call.op = "embed" /\ lenResidues(call.dom) >= 2) =>
    /\ IsOk(call.out)
    /\ EmbedAsStated(call.dom, call.to_embed, call.out)

\* C5: embed(dom, to_embed), for a dom of three residues or more, returns the
\* model made of the atoms of dom's first two residues, then every atom of
\* to_embed, then the atoms of dom's residues 2 to the last, with the residue
\* sequence dom[:2] + to_embed + dom[2:], and leaves dom and to_embed as they
\* were.  For a dom of exactly two residues it returns that model (nothing
\* follows to_embed) or raises ValueError on the empty selection.
C5_EmbedResult ==
  call.op = "embed" =>
    /\ lenResidues(call.dom) >= 3 =>
         /\ IsOk(call.out)
         /\ EmbedAsStated(call.dom, call.to_embed, call.out)
    /\ lenResidues(call.dom) = 2 =>
         IF IsOk(call.out)
         THEN EmbedAsStated(call.dom, call.to_embed, call.out)
         ELSE call.out.exc = "ValueError"

C5_Witness ==
  /\ call.op = "embed"
  /\ IsOk(call.out)
  /\ lenResidues(call.dom) = 3
  /\ lenChains(call.to_embed) = 2
  /\ Len(call.out.val) = Len(call.dom) + Len(call.to_embed)

\* the chains of a model, each as the residues (letter, coordinates) it holds
ChainList(m) ==
  [c \in 1..lenChains(m) |->
     LET atoms == SelectSeq(m, LAMBDA a : a.chain = c - 1)
     IN [k \in 1..Len(atoms) |-> <<atoms[k].aa, atoms[k].xyz, atoms[k].res - atoms[1].res>>]]

\* C6: extract_fixed(dom, full), for a dom that is some but not all of the
\* chains of full, returns full without the chains of dom: those chains are
\* absent and every other chain of full is there, unchanged and in order.
C6_ExtractFixedRemovesDom ==
  (/\ call.op = "extract_fixed"
   /\ Elems(ChainList(call.dom)) \subseteq Elems(ChainList(call.full))
   /\ Elems(ChainList(call.dom)) # Elems(ChainList(call.full))) =>
    /\ IsOk(call.out)
    /\ ChainList(call.out.val) =
         SelectSeq(ChainList(call.full),
                   LAMBDA c : c \notin Elems(ChainList(call.dom)))

\* the entry (dom, i_start) spells dom's sequence in full at i_start
EntryMatches(full, e) ==
  /\ e.i_start + Len(sequence(e.dom)) <= lenResidues(full)
  /\ \A k \in 1..Len(sequence(e.dom)) :
       sequence(full)[e.i_start + k] = sequence(e.dom)[k]

InEntry(e, a) == a.res >= e.i_start /\ a.res < e.i_start + Len(sequence(e.dom))

\* the atoms of the blocks of the entries 1..k of embedded, in that order
RECURSIVE BlockKeys(_, _, _)
BlockKeys(full, embedded, k) ==
  IF k = 0 THEN <<>>
  ELSE BlockKeys(full, embedded, k - 1)
         \o Key(SelectSeq(full, LAMBDA a : InEntry(embedded[k], a)))

\* the blocks of the entries do not overlap and leave residues of full over
BlocksApart(full, embedded) ==
  /\ \A j, k \in 1..Len(embedded) :
       j # k => \A a \in Elems(full) : ~(InEntry(embedded[j], a) /\ InEntry(embedded[k], a))
  /\ \E a \in Elems(full) : \A k \in 1..Len(embedded) : ~InEntry(embedded[k], a)

\* C7: extract_embedded(full, embedded), for blocks that do not overlap and
\* leave part of full over: when every entry spells its domain's sequence
\* at its index, the result is the atoms of full outside the blocks, as
\* one chain, then the blocks as chains of their own, with the serial
\* numbers 1..N; when some entry does not match, TypeError.
C7_ExtractEmbeddedResult ==
  (call.op = "extract_embedded" /\ BlocksApart(call.full, call.embedded)) =>
    LET full == call.full
        embedded == call.embedded
        out == call.out
        remainder == SelectSeq(full, LAMBDA a :
                       \A k \in 1..Len(embedded) : ~InEntry(embedded[k], a))
    IN IF \A k \in 1..Len(embedded) : EntryMatches(full, embedded[k])
       THEN /\ IsOk(out)
            /\ Key(out.val) = Key(remainder) \o BlockKeys(full, embedded, Len(embedded))
            /\ \A k \in 1..Len(out.val) :
                 /\ out.val[k].serial_number = k
                 /\ (out.val[k].chain = 0) <=> (k <= Len(remainder))
       ELSE out.exc = "TypeError"

\* atoms, residue borders and chain borders of a model
Shape(m) == [k \in 1..Len(m) |-> <<m[k].aa, m[k].xyz, m[k].res, m[k].chain>>]

\* a unit of the symmetric structure: the residues of one occurrence
UnitAt(full, symseq, p) == take(full, res2atomIndices(full, Range0(p, p + Len(symseq))))

\* the non-overlapping occurrences of symseq in s: a match is an occurrence
\* unless an occurrence that begins before it reaches into it
Occurrences(symseq, s) ==
  LET isOcc[p \in 0..Len(s)] ==
        /\ MatchAt(symseq, s, p)
        /\ \A q \in 0..(p - 1) : isOcc[q] => q + Len(symseq) <= p
  IN {p \in 0..Len(s) : isOcc[p]}

\* C8: extract_symmetric(full, symseq, embedded): when symseq occurs in
\* full's sequence the result is, occurrence after occurrence, what
\* extract_embedded makes of the residues of that occurrence (an exception
\* of extract_embedded is the call's), with the serial numbers 1..N; when
\* symseq does not occur, TypeError.
C8_ExtractSymmetricResult ==
  call.op = "extract_symmetric" =>
    LET full == call.full
        symseq == call.symseq
        embedded == call.embedded
        out == call.out
        s == sequence(full)
        S == Occurrences(symseq, s)
        n == Cardinality(S)
        occ == CHOOSE f \in [1..n -> S] : \A i, j \in 1..n : i < j => f[i] < f[j]
        units == [k \in 1..n |->
                    extract_embedded(UnitAt(full, symseq, occ[k]), embedded)]
        upTo[k \in 0..n] ==
          IF k = 0 THEN <<>> ELSE concat(upTo[k - 1], units[k].val)
        expected == upTo[n]
    IN IF S = {} THEN out.exc = "TypeError"
       ELSE IF \E k \in 1..n : ~IsOk(units[k])
            THEN ~IsOk(out) /\ \E k \in 1..n : out.exc = units[k].exc
            ELSE /\ IsOk(out)
                 /\ Shape(out.val) = Shape(expected)
                 /\ \A k \in 1..Len(out.val) : out.val[k].serial_number = k

C8_Witness ==
  /\ call.op = "extract_symmetric"
  /\ IsOk(call.out)
  /\ Len(call.embedded) = 1
  /\ Len(finditer(call.symseq, sequence(call.full))) = 2
  /\ Len(call.symseq) = 3
  /\ lenChains(call.out.val) = 4

(***************************************************************************)
(* Python values the Executor keeps: output, error                         *)
(***************************************************************************)
PyNone == [type |-> "NoneType", chars |-> <<>>]
PyStr(c) == [type |-> "str", chars |-> c]
PyBytes(c) == [type |-> "bytes", chars |-> c]
PyBool(b) == [type |-> "bool", chars |-> IF b THEN <<1>> ELSE <<>>]

\* bool(v): None, '' and b'' and False are false
Truthy(v) == v.type # "NoneType" /\ v.chars # <<>>

\* The characters of a str are their code points and the elements of a bytes
\* value are the integers 0..255, as ord() and iteration give them.

\* the quote repr() puts around bytes: " (34) when they hold a ' (39) and no
\* ", else '
reprQuote(bytes) ==
  IF (\E k \in 1..Len(bytes) : bytes[k] = 39)
     /\ ~(\E k \in 1..Len(bytes) : bytes[k] = 34)
  THEN 34 ELSE 39

\* the character of a hex digit: 0..9 and a..f
hexdigit(d) == IF d < 10 THEN 48 + d ELSE 87 + d

\* one byte in repr(): the quote in use and the backslash (92) get a
\* backslash, tab (9), newline (10) and return (13) their letter t, n, r,
\* any other byte below 0x20 or from 0x7f on is written \xNN
reprByte(c, quote) ==
  IF c = quote \/ c = 92 THEN <<92, c>>
  ELSE IF c = 9 THEN <<92, 116>>
  ELSE IF c = 10 THEN <<92, 110>>
  ELSE IF c = 13 THEN <<92, 114>>
  ELSE IF c < 32 \/ c >= 127
  THEN <<92, 120, hexdigit(c \div 16), hexdigit(c % 16)>>
  ELSE <<c>>

RECURSIVE reprBytes(_, _)
reprBytes(bytes, quote) ==
  IF bytes = <<>> THEN <<>>
  ELSE reprByte(Head(bytes), quote) \o reprBytes(Tail(bytes), quote)

\* str(v): 'None', 'True', 'False', the string itself; of bytes it is
\* repr(v), b and the quoted, escaped bytes
str(v) ==
  IF v.type = "NoneType" THEN <<78, 111, 110, 101>>
  ELSE IF v.type = "bytes"
  THEN <<98, reprQuote(v.chars)>> \o reprBytes(v.chars, reprQuote(v.chars))
         \o <<reprQuote(v.chars)>>
  ELSE IF v.type = "bool"
  THEN (IF v.chars # <<>> THEN <<84, 114, 117, 101>>
        ELSE <<70, 97, 108, 115, 101>>)
  ELSE v.chars

\* 'Problems'
Problems == <<80, 114, 111, 98, 108, 101, 109, 115>>

\* sub in s, for strings
Contains(sub, s) == \E p \in 0..Len(s) : MatchAt(sub, s, p)

\* isFailed with the search done on the output only when it is a string
isFailedStrOnly(error, output) ==
  IF Truthy(error) THEN error
  ELSE PyBool(output.type = "str" /\ Contains(Problems, output.chars))

\* Ranch.isFailed: self.error or 'Problems' in str(self.output)
isFailed(error, output) ==
  IF Truthy(error) THEN error ELSE PyBool(Contains(Problems, str(output)))

(***************************************************************************)
(* Paths and the file system                                               *)
(***************************************************************************)
\* A path is the sequence of the pieces of its text; "/" is a piece.
TempRoot == <<"/", "tmp">>

Dir == [kind |-> "dir"]
SeqFile(text) == [kind |-> "seq", text |-> text]
PdbFile(m) == [kind |-> "pdb", model |-> m]

exists(files, p) == p \in DOMAIN files

IsPrefix(a, b) == Len(a) <= Len(b) /\ SubSeq(b, 1, Len(a)) = a

\* p is dir or lies below it
Under(dir, p) == IsPrefix(dir, p) /\ (Len(p) = Len(dir) \/ p[Len(dir) + 1] = "/")

\* the directory a path lies in
Parent(p) ==
  LET k == CHOOSE j \in 1..Len(p) : p[j] = "/" /\ \A i \in (j + 1)..Len(p) : p[i] # "/"
  IN SubSeq(p, 1, k - 1)

\* writing a file needs its directory
canWrite(files, p) == exists(files, Parent(p)) /\ files[Parent(p)].kind = "dir"

write(files, p, data) == [q \in DOMAIN files \cup {p} |-> IF q = p THEN data ELSE files[q]]

\* tempfile.mkdtemp('', prefix, dir): a directory with a name not handed out before
mkdtempName(prefix, dir, n) == dir \o <<"/", prefix, ToString(n + 1)>>

\* tools.tryRemove(dir, tree=True)
tryRemoveTree(files, dir) == [q \in {x \in DOMAIN files : ~Under(dir, x)} |-> files[q]]

\* os.listdir(dir) as full paths: the files directly in dir
listdir(files, dir) == {q \in DOMAIN files : Len(q) > Len(dir) /\ Parent(q) = dir}

(***************************************************************************)
(* Ranch.__init__ and Ranch._setup                                         *)
(***************************************************************************)
\* The *domains arguments: a linker string, a PDBModel (with the identity of
\* the object and the file it was read from), or something else.
Linker(q) == [kind |-> "str", s |-> q]
Domain(id, m, source) == [kind |-> "pdb", id |-> id, m |-> m, source |-> source]
NotADomain == [kind |-> "other"]

NoModel == [kind |-> "none"]

\* the overall_symmetry dictionary of __init__
overall_symmetry(overall_sym) ==
  IF overall_sym = "mixed" THEN Ok("m")
  ELSE IF overall_sym = "symmetry" THEN Ok("s")
  ELSE IF overall_sym = "asymmetry" THEN Ok("a")
  ELSE Raise("KeyError")

\* [... for element in self.domains if isinstance(element, B.PDBModel)]
defaultFixed(domains) ==
  [k \in 1..Len(SelectSeq(domains, LAMBDA e : e.kind = "pdb")) |-> "no"]

defaultMultich(domains, symtemplate) ==
  LET pdbs == SelectSeq(domains, LAMBDA e : e.kind = "pdb")
  IN [k \in 1..Len(pdbs) |-> IF pdbs[k].id = symtemplate THEN "yes" ELSE "no"]

\* steps 8 and 9 with the index of the embedded domain one residue early
embedPairedOneEarly(element, chain_id, st) ==
  LET i_mask_chain == Positions(element.m, LAMBDA a : a.chain_id = chain_id)
  IN IF i_mask_chain = <<>> THEN Raise("IndexError")
     ELSE Bind(takeChains(element.m,
                          <<atom2chainIndices(element.m, i_mask_chain)[1]>>),
            LAMBDA m :
          Bind(extract_fixed(m, element.m),
            LAMBDA to_embed :
          Bind(embed(m, to_embed),
            LAMBDA m_emb :
          Ok([st EXCEPT
                !.embedded = Append(@, [dom |-> to_embed,
                                        i_start |-> Len(st.sequence) + 1]),
                !.sequence = @ \o sequence(m_emb),
                !.doms_in = Append(@, [m |-> m_emb, source |-> <<>>])]))))

\* steps 8 and 9 of _setup: the chain named chain_id of element takes the
\* other chains of element in, after its second residue
embedPaired(element, chain_id, st) ==
  LET i_mask_chain == Positions(element.m, LAMBDA a : a.chain_id = chain_id)
  IN IF i_mask_chain = <<>> THEN Raise("IndexError")
     ELSE Bind(takeChains(element.m,
                          <<atom2chainIndices(element.m, i_mask_chain)[1]>>),
            LAMBDA m :
          Bind(extract_fixed(m, element.m),
            LAMBDA to_embed :
          Bind(embed(m, to_embed),
            LAMBDA m_emb :
          Ok([st EXCEPT
                !.embedded = Append(@, [dom |-> to_embed,
                                        i_start |-> Len(st.sequence) + 2]),
                !.sequence = @ \o sequence(m_emb),
                !.doms_in = Append(@, [m |-> m_emb, source |-> <<>>])]))))

\* the element joins doms_in as it is
asIs(element, st) ==
  [st EXCEPT !.doms_in = Append(@, [m |-> element.m, source |-> element.source]),
             !.i = @ + 1]

\* the loop of _setup from the k-th element on; st holds i, sequence, doms_in
\* and embedded
RECURSIVE setupLoop(_, _, _)
setupLoop(o, k, st) ==
  IF k > Len(o.domains) THEN Ok(st)
  ELSE IF o.domains[k].kind = "str"
  THEN setupLoop(o, k + 1, [st EXCEPT !.sequence = @ \o o.domains[k].s])
  ELSE IF o.domains[k].kind # "pdb" THEN Raise("TypeError")
  ELSE IF st.i >= Len(o.multich) THEN Raise("IndexError")
  ELSE IF o.multich[st.i + 1] = "yes"
  THEN IF o.symunit.kind = "none" THEN Raise("AttributeError")
       ELSE setupLoop(o, k + 1,
              [asIs(o.domains[k], st) EXCEPT !.sequence = @ \o sequence(o.symunit.m)])
  ELSE IF lenChains(o.domains[k].m) # 1 /\ st.i >= Len(o.fixed)
  THEN Raise("IndexError")
  ELSE IF lenChains(o.domains[k].m) = 1 \/ o.fixed[st.i + 1] = "yes"
  THEN setupLoop(o, k + 1,
         [asIs(o.domains[k], st) EXCEPT !.sequence = @ \o sequence(o.domains[k].m)])
  ELSE IF o.domains[k].id \notin DOMAIN o.chains THEN Raise("KeyError")
  ELSE IF o.chains[o.domains[k].id].kind = "list"
  THEN embedPaired(o.domains[k], o.chains[o.domains[k].id].ids[1], st)
  ELSE Bind(embedPaired(o.domains[k], o.chains[o.domains[k].id].ids[1], st),
            LAMBDA e : setupLoop(o, k + 1, [e EXCEPT !.i = @ + 1]))

\* Ranch._setup
setup(o) ==
  Bind(setupLoop(o, 1, [i |-> 0, sequence |-> <<>>, doms_in |-> <<>>,
                        embedded |-> <<>>]),
       LAMBDA r :
         Ok([o EXCEPT !.sequence = r.sequence,
                      !.doms_in = r.doms_in,
                      !.embedded = r.embedded,
                      !.symseq = IF o.symtemplate # "none" THEN r.sequence ELSE @]))

\* What Executor.__init__ sets that the wrappers use
executorInit(o, args, debug) ==
  o @@ [args |-> args, debug |-> debug, output |-> PyNone, error |-> PyNone,
        result |-> [kind |-> "None"], exc |-> "none",
        \* history of the run, kept for the properties
        trace |-> <<>>, inputs_ready |-> FALSE, tempdir_at_finish |-> FALSE,
        m_paths |-> <<>>]

\* Ranch(*domains, chains=, symmetry=, symtemplate=, symunit=, overall_sym=,
\* fixed=, multich=, debug=) with n temporary names handed out so far: the
\* object, or the exception with the directories that were made
ranchInit(a, n) ==
  LET tempdir == mkdtempName("ranch_", TempRoot, n)
      dir_models == mkdtempName("models_", tempdir, n + 1)
      dirs == [tempdir |-> tempdir, dir_models |-> dir_models]
      letter == overall_symmetry(a.overall_sym)
      template == IF a.symtemplate = "none" THEN NoModel
                  ELSE (CHOOSE e \in Elems(a.domains) :
                          e.kind = "pdb" /\ e.id = a.symtemplate)
      o == [cls |-> "Ranch", pc |-> "constructed",
            tempdir |-> tempdir, dir_models |-> dir_models,
            f_seq |-> tempdir \o <<"/", "sequence.seq">>,
            domains |-> a.domains, chains |-> a.chains, sequence |-> <<>>,
            symmetry |-> a.symmetry, symtemplate |-> a.symtemplate,
            doms_in |-> <<>>, pdbs_in |-> <<>>, embedded |-> <<>>,
            overall_sym |-> letter.val,
            fixed |-> IF a.fixed # <<>> THEN a.fixed ELSE defaultFixed(a.domains),
            multich |-> IF a.multich # <<>> THEN a.multich
                        ELSE defaultMultich(a.domains, a.symtemplate),
            symunit |-> IF a.symtemplate = "none" THEN NoModel
                        ELSE IF a.symunit.kind # "none" THEN a.symunit
                        ELSE [kind |-> "pdb",
                              m |-> take(template.m, chain2atomIndices(template.m, <<0>>))],
            symseq |-> <<>>]
  IN IF ~IsOk(letter) THEN Raise(letter.exc) @@ dirs
     ELSE Bind(setup(o), LAMBDA r : Ok(executorInit(r, <<>>, a.debug))) @@ dirs

(***************************************************************************)
(* Pulchra.__init__                                                        *)
(***************************************************************************)
\* Pulchra(model, debug=) with n temporary names handed out so far, on the
\* file system files: the object and the file system it leaves
pulchraInit(model, debug, n, files) ==
  LET tempdir == mkdtempName("pulchra_", TempRoot, n)
      pdb_path == tempdir \o <<"/", "model.", "pdb">>
      rb_path == SubSeq(pdb_path, 1, Len(pdb_path) - 1) \o <<"rebuilt.pdb">>
      o == [cls |-> "Pulchra", pc |-> "constructed", model |-> model,
            tempdir |-> tempdir, rb_path |-> rb_path]
  IN [obj |-> executorInit(o, <<pdb_path>>, debug),
      files |-> write(write(files, tempdir, Dir), pdb_path, PdbFile(model))]

(***************************************************************************)
(* Ranch.prepare                                                           *)
(***************************************************************************)
\* s[-8:]
Last8(q) == Slice(q, IF Len(q) > 8 THEN Len(q) - 8 ELSE 0, Len(q))

pdbName(tempdir, i, d) ==
  tempdir \o <<"/", ToString(i), "_">>
    \o (IF d.source = <<>> THEN <<".pdb">> ELSE Last8(d.source))

\* the loop that writes the pdb files, from domain i on
RECURSIVE writePdbs(_, _, _, _)
writePdbs(o, i, pdbs_in, files) ==
  IF i >= Len(o.doms_in) THEN [exc |-> "none", pdbs_in |-> pdbs_in, files |-> files]
  ELSE LET pdb_name == pdbName(o.tempdir, i, o.doms_in[i + 1])
       IN IF ~canWrite(files, pdb_name)
          THEN [exc |-> "OSError", pdbs_in |-> Append(pdbs_in, pdb_name), files |-> files]
          ELSE writePdbs(o, i + 1, Append(pdbs_in, pdb_name),
                         write(files, pdb_name, PdbFile(o.doms_in[i + 1].m)))

\* the pdb files only: the sequence file is not written
writeInputsNoSeq(o, files) == writePdbs(o, 0, o.pdbs_in, files)

\* the pdb files and the sequence file
writeInputs(o, files) ==
  LET w == writePdbs(o, 0, o.pdbs_in, files)
  IN IF w.exc # "none" THEN w
     ELSE IF ~canWrite(w.files, o.f_seq) THEN [w EXCEPT !.exc = "OSError"]
     ELSE [w EXCEPT !.files = write(w.files, o.f_seq, SeqFile(o.sequence))]

\* ' -x=%s' * len(values) % tuple(values), as the words of the string
formatEach(flag, values) == [k \in 1..Len(values) |-> <<flag>> \o values[k]]

Words(values) == [k \in 1..Len(values) |-> <<values[k]>>]

\* the argument string with the -o words before the -f words
ranchArgsSwapped(o, pdbs_in) ==
  <<o.f_seq, <<"-q=10">>, <<"-i">>>>
    \o <<<<"-s=", o.symmetry>>, <<"-y=", o.overall_sym>>>>
    \o formatEach("-x=", pdbs_in)
    \o formatEach("-o=", Words(o.multich))
    \o formatEach("-f=", Words(o.fixed))
    \o <<<<"-w=">> \o o.dir_models>>

\* the argument string of prepare, as the sequence of its words
ranchArgs(o, pdbs_in) ==
  <<o.f_seq, <<"-q=10">>, <<"-i">>>>
    \o <<<<"-s=", o.symmetry>>, <<"-y=", o.overall_sym>>>>
    \o formatEach("-x=", pdbs_in)
    \o formatEach("-f=", Words(o.fixed))
    \o formatEach("-o=", Words(o.multich))
    \o <<<<"-w=">> \o o.dir_models>>

\* Ranch.prepare: the object and the file system it leaves, or the exception
ranchPrepare(o, files) ==
  LET w == writeInputs(o, files)
  IN [exc |-> w.exc, files |-> w.files,
      obj |-> IF w.exc # "none" THEN [o EXCEPT !.pdbs_in = w.pdbs_in]
              ELSE [o EXCEPT !.pdbs_in = w.pdbs_in,
                             !.args = ranchArgs(o, w.pdbs_in)]]

(***************************************************************************)
(* finish and cleanup                                                      *)
(***************************************************************************)
\* a list comprehension: the list of the values, or the first exception
comprehension(results) ==
  LET bad == {k \in 1..Len(results) : ~IsOk(results[k])}
  IN IF bad # {} THEN Raise(results[CHOOSE k \in bad : \A j \in bad : k <= j].exc)
     ELSE Ok([k \in 1..Len(results) |-> results[k].val])

\* finish with extract_embedded for every model
ranchFinishEmbeddedOnly(o, files, m_paths) ==
  comprehension([k \in 1..Len(m_paths) |->
                   extract_embedded(files[m_paths[k]].model, o.embedded)])

\* Ranch.finish on the paths m_paths: the list of results, or the first
\* exception of the list comprehension
ranchFinish(o, files, m_paths) ==
  comprehension([k \in 1..Len(m_paths) |->
                   IF o.symtemplate # "none"
                   THEN extract_symmetric(files[m_paths[k]].model, o.symseq, o.embedded)
                   ELSE extract_embedded(files[m_paths[k]].model, o.embedded)])

\* Pulchra.finish
pulchraFinish(o, files) ==
  IF ~exists(files, o.rb_path) THEN Raise("OSError")
  ELSE Ok(renumberResidues(files[o.rb_path].model))

\* cleanup that removes the directory whatever debug says
cleanupAlways(o, files) == tryRemoveTree(files, o.tempdir)

\* cleanup that leaves every file
cleanupNever(o, files) == files

\* Ranch.cleanup and Pulchra.cleanup: the file system they leave
cleanup(o, files) ==
  IF ~o.debug THEN tryRemoveTree(files, o.tempdir) ELSE files

(***************************************************************************)
(* The objects the program makes                                           *)
(***************************************************************************)
GG == <<"G", "G">>
File2z6o == <<"/", "d", "/", "2", "z", "6", "o", ".", "p", "d", "b">>
FileDomAB == <<"/", "d", "/", "d", "o", "m", "1", "_", "A", "B", ".", "p", "d", "b">>
FileH3 == <<"/", "d", "/", "H", "3", ".", "p", "d", "b">>

dom1 == Domain("dom1", MkModel(<<<<"A", "G", "A">>>>, 0), File2z6o)
dom2 == Domain("dom2", MkModel(<<<<"G", "A", "A">>>>, 20), FileDomAB)
domH3 == Domain("domH3", MkModel(<<<<"G", "A">>>>, 30), FileH3)
domAB1 == Domain("domAB1", MkModel(<<<<"A", "G", "A">>, <<"G", "A", "G">>>>, 40), FileDomAB)
domAB2 == Domain("domAB2", domAB1.m, FileDomAB)
domShortB == Domain("domShortB", MkModel(<<<<"A", "G", "A">>, <<"G", "A">>>>, 60), FileDomAB)

One(id) == [kind |-> "str", ids |-> <<id>>]
Many(ids) == [kind |-> "list", ids |-> ids]

Defaults ==
  [domains |-> <<>>, chains |-> <<>>, symmetry |-> "p1", symtemplate |-> "none",
   symunit |-> NoModel, overall_sym |-> "mixed", fixed |-> <<>>, multich |-> <<>>,
   debug |-> FALSE]

\* the calls of the tests and of the usage notes, and calls that fail
RanchCalls ==
  LET pairAB == ("domAB1" :> One("A")) @@ ("domAB2" :> One("B"))
      calls ==
        { [Defaults EXCEPT !.domains = <<dom1, Linker(GG), dom2>>],
          [Defaults EXCEPT !.domains = <<domAB1, Linker(GG), domAB2>>,
                           !.chains = pairAB],
          [Defaults EXCEPT !.domains = <<domAB1, Linker(GG), domAB2>>,
                           !.chains = pairAB, !.symmetry = "p2",
                           !.symtemplate = "domAB1", !.overall_sym = "symmetry"],
          [Defaults EXCEPT !.domains = <<domAB1, Linker(GG), dom2>>,
                           !.chains = ("domAB1" :> Many(<<"A", "B">>))],
          [Defaults EXCEPT !.domains = <<dom1, Linker(<<"G">>), domAB1>>,
                           !.fixed = <<"no", "yes">>, !.multich = <<"no", "no">>,
                           !.overall_sym = "asymmetry"],
          [Defaults EXCEPT !.domains = <<dom1, Linker(GG), domShortB>>,
                           !.chains = ("domShortB" :> One("B"))],
          [Defaults EXCEPT !.domains = <<dom1, NotADomain>>],
          [Defaults EXCEPT !.domains = <<dom1>>, !.overall_sym = "p1"],
          [Defaults EXCEPT !.domains = <<domH3>>] }
  IN {[c EXCEPT !.debug = d] : c \in calls, d \in BOOLEAN}

PulchraModels == {dom1.m, domAB1.m}

\* what the external program reports: (output, error)
ToolReports ==
  { <<PyNone, PyNone>>,
    \* 'ok', ''
    <<PyStr(<<111, 107>>), PyStr(<<>>)>>,
    \* 'ok', 'e'
    <<PyStr(<<111, 107>>), PyStr(<<101>>)>>,
    \* 'no Problems.'
    <<PyStr(<<110, 111, 32>> \o Problems \o <<46>>), PyNone>>,
    \* 'problems'
    <<PyStr(<<112, 114, 111, 98, 108, 101, 109, 115>>), PyNone>>,
    \* b'\x1bProblems\x00\n'
    <<PyBytes(<<27>> \o Problems \o <<0, 10>>), PyNone>> }

Init ==
  /\ lib \in BOOLEAN
  /\ call = Idle
  /\ self = NoObject
  /\ fs = (TempRoot :> Dir)
  /\ ntmp = 0
  /\ past = {}

\* no run is under way: run() blocks until its cleanup or its exception
Resting == self.pc \in {"none", "constructed", "init_failed", "raised", "cleaned"}

\* the directories an object made, and how it ended
Summary(o) ==
  [tempdir |-> o.tempdir,
   dirs |-> IF o.cls = "Ranch" THEN {o.tempdir, o.dir_models} ELSE {o.tempdir},
   debug |-> o.debug,
   cleaned |-> o.pc = "cleaned"]

Dropped == IF self.cls = "none" THEN past ELSE past \cup {Summary(self)}

MayConstruct == Resting /\ Cardinality(Dropped) < MaxObjects

\* the constructor returned r: its directories are there, and so is the
\* object unless it raised
Constructed(r, debug) ==
  /\ fs' = write(write(fs, r.tempdir, Dir), r.dir_models, Dir)
  /\ self' = IF IsOk(r) THEN r.val
             ELSE [cls |-> "Ranch", pc |-> "init_failed",
                   tempdir |-> r.tempdir, dir_models |-> r.dir_models,
                   debug |-> debug, exc |-> r.exc, trace |-> <<>>]

NewRanch ==
  /\ MayConstruct
  /\ \E a \in RanchCalls :
       /\ Constructed(ranchInit(a, ntmp), a.debug)
       /\ call' = [op |-> "Ranch", overall_sym |-> a.overall_sym]
  /\ ntmp' = ntmp + 2
  /\ past' = Dropped
  /\ UNCHANGED lib

NewPulchra ==
  /\ MayConstruct
  /\ \E model \in PulchraModels, debug \in BOOLEAN :
       LET r == pulchraInit(model, debug, ntmp, fs)
       IN fs' = r.files /\ self' = r.obj
  /\ call' = [op |-> "Pulchra"]
  /\ ntmp' = ntmp + 1
  /\ past' = Dropped
  /\ UNCHANGED lib

(***************************************************************************)
(* Executor.run: prepare, the external program, finish or fail, cleanup    *)
(***************************************************************************)
Step(o, pc, name) == [o EXCEPT !.pc = pc, !.trace = Append(@, name)]

\* run() calls prepare first
Prepare ==
  /\ self.pc = "constructed"
  /\ IF self.cls = "Ranch"
     THEN LET r == ranchPrepare(self, fs)
          IN /\ fs' = r.files
             /\ self' = IF r.exc = "none" THEN Step(r.obj, "prepared", "prepare")
                        ELSE [Step(r.obj, "raised", "prepare") EXCEPT !.exc = r.exc]
     ELSE /\ fs' = fs
          /\ self' = Step(self, "prepared", "prepare")
  /\ UNCHANGED <<lib, call, ntmp, past>>

\* the folder the -w word of the argument string names
toolModelsDir(args) ==
  LET w == SelectSeq(args, LAMBDA t : t # <<>> /\ t[1] = "-w=")
  IN IF w = <<>> THEN <<>> ELSE Tail(w[1])

\* the models ranch can leave: of the sequence it was given (once per
\* symmetric unit), or of another sequence
toolModel(o, wrong) ==
  IF wrong THEN MkModel(<<Tail(o.sequence)>>, 200)
  ELSE IF o.symtemplate # "none" THEN MkModel(<<o.symseq, o.symseq>>, 200)
  ELSE MkModel(<<o.sequence>>, 200)

\* the arguments name files that are there
inputsReady(o, files) ==
  IF o.cls = "Ranch"
  THEN /\ o.args # <<>>
       /\ o.args[1] = o.f_seq
       /\ exists(files, o.f_seq)
       /\ Len(o.pdbs_in) = Len(o.doms_in)
       /\ \A k \in 1..Len(o.pdbs_in) : exists(files, o.pdbs_in[k])
       /\ \A k \in 1..Len(o.args) :
            o.args[k][1] = "-x=" => exists(files, Tail(o.args[k]))
  ELSE Len(o.args) = 1 /\ exists(files, o.args[1])

\* the external program runs and ends: it reports, and leaves n models, the
\* first of which may be of another sequence
Execute ==
  /\ self.pc = "prepared"
  /\ \E report \in ToolReports :
       LET o == [Step(self, "executed", "execute") EXCEPT
                   !.output = report[1], !.error = report[2],
                   !.inputs_ready = inputsReady(self, fs)]
       IN IF self.cls = "Ranch"
          THEN \E n \in 0..MaxModels : \E wrong \in {k \in 0..1 : k <= n} :
                 LET dir == toolModelsDir(self.args)
                     made == [k \in 1..n |-> dir \o <<"/", ToString(k), ".pdb">>]
                 IN /\ self' = o
                    /\ fs' = IF exists(fs, dir)
                             THEN [q \in DOMAIN fs \cup Elems(made) |->
                                     IF q \in Elems(made)
                                     THEN PdbFile(toolModel(self, wrong > 0 /\ made[wrong] = q))
                                     ELSE fs[q]]
                             ELSE fs
          ELSE \E rebuilt \in BOOLEAN :
                 /\ self' = o
                 /\ fs' = IF rebuilt THEN write(fs, self.rb_path, PdbFile(self.model))
                          ELSE fs
  /\ UNCHANGED <<lib, call, ntmp, past>>

\* what run() asks after the program ended; Pulchra has the Executor's own
\* isFailed, which either answer stands for
Failed(o, answer) ==
  IF o.cls = "Ranch" THEN Truthy(isFailed(o.error, o.output)) ELSE answer

\* Ranch.fail, or the Executor's: the result stays None
Fail ==
  /\ self.pc = "executed"
  /\ \E answer \in BOOLEAN : Failed(self, answer)
  /\ self' = Step(self, "failed", "fail")
  /\ UNCHANGED <<lib, call, fs, ntmp, past>>

orderings(S) ==
  {f \in [1..Cardinality(S) -> S] : \A i, j \in 1..Cardinality(S) : i # j => f[i] # f[j]}

\* finish returned r: self.result is set, or the exception goes on
Finished(o, files, r, kind) ==
  IF IsOk(r)
  THEN [Step(o, "finished", "finish") EXCEPT
          !.tempdir_at_finish = exists(files, o.tempdir),
          !.result = [kind |-> kind, val |-> r.val]]
  ELSE [Step(o, "raised", "finish") EXCEPT
          !.tempdir_at_finish = exists(files, o.tempdir), !.exc = r.exc]

Finish ==
  /\ self.pc = "executed"
  /\ \E answer \in BOOLEAN : ~Failed(self, answer)
  /\ IF self.cls = "Ranch"
     THEN IF ~exists(fs, self.dir_models)
          THEN self' = [Step(self, "raised", "finish") EXCEPT !.exc = "OSError"]
          ELSE \E m_paths \in orderings(listdir(fs, self.dir_models)) :
                 self' = Finished([self EXCEPT !.m_paths = m_paths], fs,
                                  ranchFinish(self, fs, m_paths), "list")
     ELSE self' = Finished(self, fs, pulchraFinish(self, fs), "model")
  /\ UNCHANGED <<lib, call, fs, ntmp, past>>

\* cleanup ends the run
Cleanup ==
  /\ self.pc \in {"finished", "failed"}
  /\ fs' = cleanup(self, fs)
  /\ self' = Step(self, "cleaned", "cleanup")
  /\ UNCHANGED <<lib, call, ntmp, past>>

Next == NewRanch \/ NewPulchra \/ Prepare \/ Execute \/ Fail \/ Finish \/ Cleanup

Spec == Init /\ [][Next]_vars

(***************************************************************************)
(* Ranch(...) on mixes of linkers and domains                              *)
(***************************************************************************)
MaxElements == 3

\* a domain of three chains, to be modelled in the order B, A
domABC ==
  Domain("domABC", MkModel(<<<<"A", "G">>, <<"G", "A", "G">>, <<"A", "A">>>>, 80),
         FileDomAB)

SetupElements ==
  {Linker(<<"G">>), Linker(GG), dom1, domAB1, domAB2, domShortB, domABC}

SetupChains ==
  ("domAB1" :> One("A")) @@ ("domAB2" :> One("B")) @@ ("domShortB" :> One("B"))
    @@ ("domABC" :> Many(<<"B", "A">>))

\* Ranch(*domains, chains=..., symtemplate=...): the constructor, with its
\* two directories, as the first object made; the call keeps what it was
\* given and what came of it
CallSetup ==
  /\ MayConstruct
  /\ self.cls = "none"
  /\ \E ds \in UNION {[1..k -> SetupElements] : k \in 1..MaxElements},
        t \in {"none", "domAB1"} :
       /\ t # "none" => domAB1 \in Elems(ds)
       /\ Constructed(ranchInit([Defaults EXCEPT !.domains = ds,
                                                 !.chains = SetupChains,
                                                 !.symtemplate = t], ntmp),
                      Defaults.debug)
       /\ call' = [op |-> "setup", domains |-> ds, symtemplate |-> t,
                   overall_sym |-> Defaults.overall_sym,
                   out |-> ranchInit([Defaults EXCEPT !.domains = ds,
                                                      !.chains = SetupChains,
                                                      !.symtemplate = t], ntmp)]
  /\ ntmp' = ntmp + 2
  /\ past' = Dropped
  /\ UNCHANGED lib

NextSetup == CallSetup

SpecSetup == Init /\ [][NextSetup]_vars

\* C11: after _setup every entry (dom, idx) of embedded finds dom's sequence
\* in self.sequence at idx .. idx+len-1, whatever linkers and domains come
\* before or after the embedding domain; so extract_embedded on a model with
\* the sequence self.sequence does not raise its TypeError.
C11_EmbeddedIndices ==
  (call.op = "setup" /\ IsOk(call.out)) =>
    /\ \A k \in 1..Len(call.out.val.embedded) :
         LET e == call.out.val.embedded[k]
             q == sequence(e.dom)
         IN /\ e.i_start + Len(q) <= Len(call.out.val.sequence)
            /\ \A j \in 1..Len(q) : call.out.val.sequence[e.i_start + j] = q[j]
    /\ call.out.val.sequence # <<>> =>
         extract_embedded(MkModel(<<call.out.val.sequence>>, 200),
                          call.out.val.embedded).exc # "TypeError"

\* two embedding domains with a linker between them
C11_Witness ==
  /\ call.op = "setup"
  /\ IsOk(call.out)
  /\ Len(call.domains) = 3
  /\ call.domains[2].kind = "str"
  /\ Len(call.out.val.embedded) = 2
  /\ call.out.val.embedded[2].i_start > Len(sequence(call.out.val.embedded[1].dom)) + 2

(***************************************************************************)
(* Properties of a run                                                     *)
(***************************************************************************)
Ran(name) == name \in Elems(self.trace)

\* C1: Ranch.isFailed reports failure exactly when the error flag is set or
\* str(output) contains "Problems": a Ranch run goes to fail in exactly
\* these cases and to finish in all others.
C1_IsFailed ==
  (self.cls = "Ranch" /\ Ran("execute")) =>
    LET flagged == /\ self.error.type # "NoneType"
                   /\ self.error.chars # <<>>
        text == str(self.output)
        problems == \E p \in 0..(Len(text) - Len(Problems)) :
                      SubSeq(text, p + 1, p + Len(Problems)) = Problems
    IN /\ Truthy(isFailed(self.error, self.output)) <=> (flagged \/ problems)
       /\ self.pc # "executed" => (Ran("fail") <=> (flagged \/ problems))
       /\ self.pc # "executed" => (Ran("finish") <=> ~(flagged \/ problems))

\* a Ranch run failed on output that is bytes, with no error flag
C1_Witness ==
  /\ self.cls = "Ranch"
  /\ self.pc = "failed"
  /\ ~Truthy(self.error)
  /\ self.output.type = "bytes"

\* C2 as stated: every temporary directory of an object is gone once that
\* object's cleanup has run.
C2_GoneAfterCleanup ==
  \A s \in Dropped : s.cleaned => \A d \in s.dirs : ~exists(fs, d)

\* C2: the temporary directories are made per object (no directory belongs
\* to two objects), and when debug is not set they no longer exist after
\* that object's cleanup has run.
C2_OwnDirsGoneUnlessDebug ==
  /\ self.cls # "none" =>
       /\ \A s \in past : s.dirs \cap Summary(self).dirs = {}
       /\ self.pc \notin {"cleaned"} => \A d \in Summary(self).dirs : exists(fs, d)
  /\ \A s \in Dropped :
       (s.cleaned /\ ~s.debug) => \A d \in s.dirs : ~exists(fs, d)

\* two objects, the second a Ranch, both cleaned up without debug
C2_Witness ==
  /\ self.cls = "Ranch"
  /\ self.pc = "cleaned"
  /\ ~self.debug
  /\ \E s \in past : s.cleaned /\ ~s.debug
  /\ ~exists(fs, self.tempdir)
  /\ ~exists(fs, self.dir_models)

Orders ==
  { <<>>,
    <<"prepare">>,
    <<"prepare", "execute">>,
    <<"prepare", "execute", "finish">>,
    <<"prepare", "execute", "fail">>,
    <<"prepare", "execute", "finish", "cleanup">>,
    <<"prepare", "execute", "fail", "cleanup">> }

\* C3: the steps of a run come in the order prepare, external program,
\* finish (or fail), cleanup; the input files and the arguments are there
\* when the program starts; finish runs after the program ended, with the
\* temporary directory still there; nothing follows cleanup.
C3_StepsInOrder ==
  self.cls # "none" =>
    /\ self.trace \in Orders
    /\ Ran("execute") => self.inputs_ready
    /\ Ran("finish") => self.tempdir_at_finish
    /\ self.pc = "cleaned" <=> Ran("cleanup")

\* a Ranch run that went through all four steps
C3_Witness ==
  /\ self.cls = "Ranch"
  /\ self.trace = <<"prepare", "execute", "finish", "cleanup">>
  /\ self.inputs_ready
  /\ self.tempdir_at_finish
  /\ Len(self.pdbs_in) = 2

\* C4: after prepare the argument string is the sequence file, -q=10, -i,
\* -s=symmetry, -y=letter, a -x per entry of pdbs_in, a -f per entry of
\* fixed, a -o per entry of multich, all in order, and last -w=dir_models;
\* the letter is m, s or a for mixed, symmetry or asymmetry.
C4_ArgumentString ==
  (self.cls = "Ranch" /\ (self.pc = "prepared" \/ Ran("execute"))) =>
    LET a == self.args
        nx == Len(self.pdbs_in)
        nf == Len(self.fixed)
        no == Len(self.multich)
    IN /\ Len(a) = 5 + nx + nf + no + 1
       /\ a[1] = self.f_seq
       /\ a[2] = <<"-q=10">>
       /\ a[3] = <<"-i">>
       /\ a[4] = <<"-s=", self.symmetry>>
       /\ a[5] = <<"-y=", self.overall_sym>>
       /\ \A k \in 1..nx : a[5 + k] = <<"-x=">> \o self.pdbs_in[k]
       /\ \A k \in 1..nf : a[5 + nx + k] = <<"-f=", self.fixed[k]>>
       /\ \A k \in 1..no : a[5 + nx + nf + k] = <<"-o=", self.multich[k]>>
       /\ a[Len(a)] = <<"-w=">> \o self.dir_models
       /\ call.overall_sym = "mixed" => self.overall_sym = "m"
       /\ call.overall_sym = "symmetry" => self.overall_sym = "s"
       /\ call.overall_sym = "asymmetry" => self.overall_sym = "a"
       /\ call.overall_sym \in {"mixed", "symmetry", "asymmetry"}

\* a prepared Ranch whose fixed and multich words differ
C4_Witness ==
  /\ self.cls = "Ranch"
  /\ self.pc = "prepared"
  /\ self.fixed = <<"no", "yes">>
  /\ self.multich = <<"no", "no">>
  /\ self.overall_sym = "a"
  /\ Len(self.args) = 12

\* C9: when Ranch.finish returns, result is a list with one model per file
\* of the models directory: extract_symmetric of the file's model with
\* symseq and embedded when a symtemplate was given, extract_embedded with
\* embedded otherwise.
C9_FinishResult ==
  (self.cls = "Ranch" /\ self.pc = "finished") =>
    LET here == listdir(fs, self.dir_models)
        paths == self.m_paths
    IN /\ self.result.kind = "list"
       /\ Len(self.result.val) = Cardinality(here)
       /\ Len(paths) = Cardinality(here)
       /\ Elems(paths) = here
       /\ \A k \in 1..Len(paths) :
            Ok(self.result.val[k]) =
              IF self.symtemplate # "none"
              THEN extract_symmetric(fs[paths[k]].model, self.symseq, self.embedded)
              ELSE extract_embedded(fs[paths[k]].model, self.embedded)

\* finish returned MaxModels models for a call with a symtemplate
C9_Witness ==
  /\ self.cls = "Ranch"
  /\ self.pc = "finished"
  /\ self.symtemplate # "none"
  /\ self.result.kind = "list"
  /\ Len(self.result.val) = MaxModels
  /\ Cardinality(listdir(fs, self.dir_models)) = MaxModels
  /\ \A k \in 1..MaxModels : lenChains(self.result.val[k]) = 4

\* C10: with debug set cleanup leaves every file where it is, the temporary
\* directory and what it holds included; without debug the directory and
\* everything in it are gone.
C10_DebugKeepsFiles ==
  [][(self.pc \in {"finished", "failed"} /\ self'.pc = "cleaned") =>
       IF self.debug
       THEN fs' = fs /\ exists(fs', self.tempdir)
       ELSE /\ \A p \in DOMAIN fs : Under(self.tempdir, p) => ~exists(fs', p)
            /\ \A p \in DOMAIN fs : ~Under(self.tempdir, p) =>
                 (exists(fs', p) /\ fs'[p] = fs[p])]_vars

\* a cleaned-up debug object whose directory still holds a pdb file
C10_Witness ==
  /\ self.pc = "cleaned"
  /\ self.debug
  /\ exists(fs, self.tempdir)
  /\ \E p \in DOMAIN fs : /\ Under(self.tempdir, p)
                          /\ p # self.tempdir
                          /\ fs[p].kind = "pdb"

====
